---- MODULE Spec2Model ----
(***************************************************************************)
(* The EVM transaction parser of app-peaq (app/src/evm/parser_impl_evm.c): *)
(* _readEth and its helpers, _validateTxEth, _getNumItemsEth, _getItemEth  *)
(* and _computeV, acting on the process-wide record eth_tx_obj; and the    *)
(* signing routine crypto_sign (app/src/crypto.c).                         *)
(*                                                                         *)
(* Memory is the byte sequence handed to the parser.  A pointer is a       *)
(* 1-based index into it, NULL is 0.  An rlp_t is a view                   *)
(* [kind, ptr, rlpLen] over that memory, never a copy.                     *)
(***************************************************************************)
EXTENDS Integers, Sequences, FiniteSets, TLC

VARIABLES
    buffer,      \* the bytes of the transaction handed to the last parse
    eth_tx_obj,  \* the process-wide record (parser_impl_evm.c:32)
    ret,         \* what the last _readEth returned, "none" before the first
    expert,      \* app_mode_expert()
    numItems,    \* result of the last _getNumItemsEth on this record, or NoResult
    out,         \* result of the last _validateTxEth/_getItemEth/_computeV, or NoResult
    before,      \* what the record held when the last parse began, until it is reviewed
    pc,              \* where crypto_sign stands, "idle" outside a call
    signature,       \* crypto_sign's argument: NULL or the address of sig_mem
    sig_mem,         \* the bytes of the caller's signature buffer
    signatureMaxlen, \* crypto_sign's argument
    message,         \* crypto_sign's argument: NULL or an address
    messageLen,      \* crypto_sign's argument
    privateKeyData,  \* crypto_sign's local (crypto.c:35)
    cx_privateKey,   \* crypto_sign's local (crypto.c:34): the bytes of the structure
    error,           \* crypto_sign's local (crypto.c:37)
    last_cx,         \* the last key or signing call crypto_sign made, "none" before
    sign_ret         \* what crypto_sign returned, "none" before it returns

parserVars == <<buffer, eth_tx_obj, ret, expert, numItems, out, before>>

signVars == <<pc, signature, sig_mem, signatureMaxlen, message, messageLen,
              privateKeyData, cx_privateKey, error, last_cx, sign_ret>>

vars == <<parserVars, signVars>>

----------------------------------------------------------------------------
\* Bounds of the exploration

\* display indices 0..MaxDisplayIdx are requested from _getItemEth
MaxDisplayIdx == 11
\* parity hints 0..MaxInfo are handed to _computeV
MaxInfo == 3
\* crypto_sign is explored with sizes scaled down: SigLen bytes stand for
\* ED25519_SIGNATURE_SIZE, SkLen for SK_LEN_25519 (sizeof privateKeyData),
\* ScalarLen for SCALAR_LEN_ED25519 (the bytes a key structure holds)
SigLen == 2
SkLen == 2
ScalarLen == 1

----------------------------------------------------------------------------
\* Program constants

SUPPORTED_NETWORKS_EVM_LEN == 3
PEAQ_MAINNET_CHAINID == 3338
PEAQ_TESTNET_CHAINID == 9990
PEAQ_CANARY_CHAINID == 2241

\* eth_tx_type_e: the marker byte is the enumerator (readTxnType)
eip2930 == 1
eip1559 == 2
legacy == 192

ETH_ADDRESS_LEN == 20
CX_ECCINFO_PARITY_ODD == 1

RLP_KIND_BYTE == "RLP_KIND_BYTE"
RLP_KIND_STRING == "RLP_KIND_STRING"
RLP_KIND_LIST == "RLP_KIND_LIST"
\* the kind field of a zeroed rlp_t (its enumerator is not named by the parser)
RLP_KIND_ZEROED == "zeroed"

NULL == 0

parser_ok == "parser_ok"
parser_unexpected_error == "parser_unexpected_error"
parser_unexpected_value == "parser_unexpected_value"
parser_unexpected_characters == "parser_unexpected_characters"
parser_unsupported_tx == "parser_unsupported_tx"
parser_invalid_chain_id == "parser_invalid_chain_id"
parser_invalid_rs_values == "parser_invalid_rs_values"
parser_display_page_out_of_range == "parser_display_page_out_of_range"
\* errors of the RLP reader
parser_unexpected_end == "parser_unexpected_end"
parser_invalid_length == "parser_invalid_length"
parser_non_canonical == "parser_non_canonical"

NoResult == [op |-> "none"]

----------------------------------------------------------------------------
\* Evaluation order

\* Body applied to the value of e, e evaluated once (C evaluates a call once and
\* keeps its result in a local)
With(e, Body(_)) == CHOOSE y \in { Body(x) : x \in {e} } : TRUE

----------------------------------------------------------------------------
\* Fixed-width unsigned arithmetic on big-endian byte vectors

\* the w-byte big-endian representation of n >= 0 (n < 256^w)
RECURSIVE ToBytes(_, _)
ToBytes(n, w) ==
    IF w = 0 THEN <<>> ELSE Append(ToBytes(n \div 256, w - 1), n % 256)

\* the unsigned integer a short big-endian byte vector stands for
RECURSIVE BytesToInt(_)
BytesToInt(bs) ==
    IF bs = <<>> THEN 0
    ELSE BytesToInt(SubSeq(bs, 1, Len(bs) - 1)) * 256 + bs[Len(bs)]

\* a + b on w bytes: [sum, carry]
RECURSIVE AddBytes(_, _)
AddBytes(a, b) ==
    IF a = <<>> THEN [sum |-> <<>>, carry |-> 0]
    ELSE With(AddBytes(Tail(a), Tail(b)), LAMBDA lo :
           With(a[1] + b[1] + lo.carry, LAMBDA s :
             [sum |-> <<s % 256>> \o lo.sum, carry |-> s \div 256]))

AllOnes(w) == [i \in 1..w |-> 255]

\* saturating_add_u32(a, b) on 4-byte vectors
saturating_add_u32(a, b) ==
    LET r == AddBytes(a, b)
    IN IF r.carry # 0 THEN AllOnes(4) ELSE r.sum

\* (uint32_t)id : the low 4 bytes of a uint64_t
u64_to_u32(id) == SubSeq(id, 5, 8)

\* x * 2 on uint32_t, wrapping
mul2_u32(x) == AddBytes(x, x).sum

\* be_bytes_to_u64(bytes, len, &num): a uint64_t as 8 big-endian bytes
U64Error == [err |-> parser_unexpected_error, num |-> ToBytes(0, 8)]

be_bytes_to_u64(mem, ptr, len) ==
    IF ptr = NULL \/ len = 0 \/ len > 8
    THEN U64Error
    ELSE [err |-> parser_ok,
          num |-> [i \in 1..(8 - len) |-> 0] \o SubSeq(mem, ptr, ptr + len - 1)]

supported_networks_evm ==
    << ToBytes(PEAQ_MAINNET_CHAINID, 8),
       ToBytes(PEAQ_TESTNET_CHAINID, 8),
       ToBytes(PEAQ_CANARY_CHAINID, 8) >>

----------------------------------------------------------------------------
\* The RLP reader

ZeroRlp == [ptr |-> NULL, kind |-> RLP_KIND_ZEROED, rlpLen |-> 0]

\* parser_context_t: buffer is the index of the context's first byte
Ctx(base, len) == [buffer |-> base, bufferLen |-> len, offset |-> 0]

RlpFail(e, ctx) == [err |-> e, ctx |-> ctx, rlp |-> ZeroRlp]

\* an item of header length hdr and payload length len, if it fits
RlpItem(ctx, kind, hdr, len) ==
    IF ctx.offset + hdr + len > ctx.bufferLen
    THEN RlpFail(parser_unexpected_end, ctx)
    ELSE [err |-> parser_ok,
          ctx |-> [ctx EXCEPT !.offset = ctx.offset + hdr + len],
          rlp |-> [ptr |-> ctx.buffer + ctx.offset + hdr, kind |-> kind, rlpLen |-> len]]

\* a long-form item: L length bytes follow the marker
RlpLong(mem, ctx, kind, L) ==
    LET p == ctx.buffer + ctx.offset
    IN IF L > 8 THEN RlpFail(parser_invalid_length, ctx)
       ELSE IF ctx.offset + 1 + L > ctx.bufferLen THEN RlpFail(parser_unexpected_end, ctx)
       ELSE IF mem[p + 1] = 0 THEN RlpFail(parser_non_canonical, ctx)
       ELSE RlpItem(ctx, kind, 1 + L, BytesToInt(SubSeq(mem, p + 1, p + L)))

\* rlp_read(ctx, &rlp): [err, rlp, ctx]
rlp_read(mem, ctx0) ==
    With(ctx0, LAMBDA ctx :
      IF ctx.offset >= ctx.bufferLen THEN RlpFail(parser_unexpected_end, ctx)
      ELSE With(mem[ctx.buffer + ctx.offset], LAMBDA B :
             IF B < 128 THEN RlpItem(ctx, RLP_KIND_BYTE, 0, 1)
             ELSE IF B <= 183 THEN RlpItem(ctx, RLP_KIND_STRING, 1, B - 128)
             ELSE IF B <= 191 THEN RlpLong(mem, ctx, RLP_KIND_STRING, B - 183)
             ELSE IF B <= 247 THEN RlpItem(ctx, RLP_KIND_LIST, 1, B - 192)
             ELSE RlpLong(mem, ctx, RLP_KIND_LIST, B - 247)))

----------------------------------------------------------------------------
\* The record

ZeroTxFields ==
    [nonce |-> ZeroRlp, gasPrice |-> ZeroRlp, gasLimit |-> ZeroRlp, to |-> ZeroRlp,
     value |-> ZeroRlp, data |-> ZeroRlp, max_priority_fee_per_gas |-> ZeroRlp,
     max_fee_per_gas |-> ZeroRlp, access_list |-> ZeroRlp]

\* MEMZERO(&eth_tx_obj, sizeof(eth_tx_obj))
ZeroTx ==
    [tx_type |-> 0, chainId |-> ZeroRlp, tx |-> ZeroTxFields, is_erc20_transfer |-> FALSE]

\* the state of a parse in progress: the error so far, the cursor, the record
Step(err, ctx, tx) == [err |-> err, ctx |-> ctx, tx |-> tx]

\* CHECK_ERROR(rlp_read(ctx, &tx_obj->tx.<f>)) for each f of fields, in order
RECURSIVE ReadFields(_, _, _)
ReadFields(mem, st0, fields) ==
    With(st0, LAMBDA st :
      IF st.err # parser_ok \/ fields = <<>> THEN st
      ELSE With(rlp_read(mem, st.ctx), LAMBDA r :
             IF r.err # parser_ok THEN Step(r.err, r.ctx, st.tx)
             ELSE ReadFields(mem,
                             Step(parser_ok, r.ctx,
                                  [st.tx EXCEPT !.tx[Head(fields)] = r.rlp]),
                             Tail(fields))))

InNetworks(num) == \E i \in 1..SUPPORTED_NETWORKS_EVM_LEN : num = supported_networks_evm[i]

ChainIDStatusNoCheck(mem, c) ==
    IF c.rlpLen > 1 THEN be_bytes_to_u64(mem, c.ptr, c.rlpLen).err
    ELSE IF c.kind = RLP_KIND_BYTE THEN parser_ok
    ELSE parser_unexpected_error

\* the checks of readChainID on the item c it has read (lines 46-63)
ChainIDStatus(mem, c) ==
    IF c.rlpLen > 1
    THEN With(be_bytes_to_u64(mem, c.ptr, c.rlpLen), LAMBDA n :
           IF n.err # parser_ok THEN n.err
           ELSE IF InNetworks(n.num) THEN parser_ok
           ELSE parser_invalid_chain_id)
    ELSE IF c.kind = RLP_KIND_BYTE
    THEN IF InNetworks(ToBytes(mem[c.ptr], 8)) THEN parser_ok
         ELSE parser_invalid_chain_id
    ELSE parser_unexpected_error

\* readChainID(ctx, &tx_obj->chainId): the item is stored, then checked
readChainID(mem, st0) ==
    With(st0, LAMBDA st :
      IF st.err # parser_ok THEN st
      ELSE With(rlp_read(mem, st.ctx), LAMBDA r :
             IF r.err # parser_ok THEN Step(r.err, r.ctx, st.tx)
             ELSE Step(ChainIDStatus(mem, r.rlp), r.ctx,
                       [st.tx EXCEPT !.chainId = r.rlp])))

\* R and S values should be either 0 or 0x80 (parser_impl_evm.c:98-102)
RSValuesOk(mem, sig_r, sig_s) ==
    \/ sig_r.rlpLen = 0 /\ sig_s.rlpLen = 0
    \/ /\ sig_r.rlpLen = 1 /\ sig_s.rlpLen = 1
       /\ mem[sig_r.ptr] = 0 /\ mem[sig_s.ptr] = 0

\* the r and s items of parse_legacy_tx (lines 91-103), after the chain ID
ReadRS(mem, c) ==
    With(rlp_read(mem, c.ctx), LAMBDA r :
      IF r.err # parser_ok THEN Step(r.err, r.ctx, c.tx)
      ELSE With(rlp_read(mem, r.ctx), LAMBDA s :
             IF s.err # parser_ok THEN Step(s.err, s.ctx, c.tx)
             ELSE IF RSValuesOk(mem, r.rlp, s.rlp) THEN Step(parser_ok, s.ctx, c.tx)
             ELSE Step(parser_invalid_rs_values, s.ctx, c.tx)))

\* the chain ID of a legacy transaction without one (lines 81-83)
NoChainId == [ptr |-> NULL, kind |-> RLP_KIND_BYTE, rlpLen |-> 0]

\* parse_legacy_tx(ctx, tx_obj): [err, ctx, tx]
parse_legacy_tx(mem, ctx, tx_obj) ==
    With(ReadFields(mem, Step(parser_ok, ctx, tx_obj),
                    <<"nonce", "gasPrice", "gasLimit", "to", "value", "data">>),
         LAMBDA base :
      IF base.err # parser_ok THEN base
      ELSE IF base.ctx.offset = base.ctx.bufferLen
      THEN Step(parser_ok, base.ctx, [base.tx EXCEPT !.chainId = NoChainId])
      ELSE With(readChainID(mem, base), LAMBDA c :
             IF c.err # parser_ok THEN c ELSE ReadRS(mem, c)))

\* the tail of parse_2930 and parse_1559: nothing may follow the access list
NoTrailing(st0) ==
    With(st0, LAMBDA st :
      IF st.err # parser_ok THEN st
      ELSE IF st.ctx.offset < st.ctx.bufferLen
      THEN Step(parser_unexpected_characters, st.ctx, st.tx)
      ELSE st)

\* parse_2930(ctx, tx_obj): [err, ctx, tx]
parse_2930(mem, ctx, tx_obj) ==
    NoTrailing(ReadFields(mem, readChainID(mem, Step(parser_ok, ctx, tx_obj)),
        <<"nonce", "gasPrice", "gasLimit", "to", "value", "data", "access_list">>))

\* parse_1559(ctx, tx_obj): [err, ctx, tx]
parse_1559(mem, ctx, tx_obj) ==
    NoTrailing(ReadFields(mem, readChainID(mem, Step(parser_ok, ctx, tx_obj)),
        <<"nonce", "max_priority_fee_per_gas", "max_fee_per_gas", "gasLimit",
          "to", "value", "data", "access_list">>))

\* readTxnType(ctx, &tx_obj->tx_type): [err, ctx, type]; type 0 means not written
readTxnType(mem, ctx) ==
    IF ctx.bufferLen = 0 \/ ctx.offset # 0
    THEN [err |-> parser_unexpected_error, ctx |-> ctx, type |-> 0]
    ELSE LET marker == mem[ctx.buffer + ctx.offset]
         IN IF marker = eip2930 \/ marker = eip1559
            THEN [err |-> parser_ok, ctx |-> [ctx EXCEPT !.offset = ctx.offset + 1],
                  type |-> marker]
            ELSE IF marker < legacy
            THEN [err |-> parser_unsupported_tx, ctx |-> ctx, type |-> 0]
            ELSE [err |-> parser_ok, ctx |-> ctx, type |-> legacy]

\* _readEth after its first statement (parser_impl_evm.c:177-206), writing into
\* the record tx0: [err, tx, consumed], where consumed counts the bytes of the
\* input up to the cursor of the last read
ReadEthFrom(mem, tx0) ==
    With(readTxnType(mem, Ctx(1, Len(mem))), LAMBDA t :
      IF t.err # parser_ok THEN [err |-> t.err, tx |-> tx0, consumed |-> t.ctx.offset]
      ELSE With([tx0 EXCEPT !.tx_type = t.type], LAMBDA tx1 :
        With(rlp_read(mem, t.ctx), LAMBDA list :
          IF list.err # parser_ok
          THEN [err |-> list.err, tx |-> tx1, consumed |-> list.ctx.offset]
          ELSE IF list.rlp.kind # RLP_KIND_LIST
          THEN [err |-> parser_unexpected_value, tx |-> tx1,
                consumed |-> list.ctx.offset]
          ELSE IF list.ctx.offset # Len(mem)
          THEN [err |-> parser_unexpected_characters, tx |-> tx1,
                consumed |-> list.ctx.offset]
          ELSE With(Ctx(list.rlp.ptr, list.rlp.rlpLen), LAMBDA txCtx :
                 With(IF tx1.tx_type = eip1559 THEN parse_1559(mem, txCtx, tx1)
                      ELSE IF tx1.tx_type = eip2930 THEN parse_2930(mem, txCtx, tx1)
                      ELSE parse_legacy_tx(mem, txCtx, tx1),
                      LAMBDA p :
                   \* list.rlp.ptr - 1 bytes stand in front of the list's payload
                   [err |-> p.err, tx |-> p.tx,
                    consumed |-> list.rlp.ptr - 1 + p.ctx.offset])))))

\* MEMZERO(&eth_tx_obj, sizeof(eth_tx_obj))
MEMZERO(obj) == ZeroTx

ReadEthNoZero(mem, tx_obj) == ReadEthFrom(mem, tx_obj)

\* _readEth(ctx, tx_obj), called with tx_obj = &eth_tx_obj
_readEth(mem, tx_obj) == ReadEthFrom(mem, MEMZERO(tx_obj))

----------------------------------------------------------------------------
\* ERC-20 recognition

ERC20_DATA_LENGTH == 68
ERC20_TRANSFER_PREFIX == <<169, 5, 156, 187>>
\* bytes of data shown by the Data item
DATA_BYTES_TO_PRINT == 16

Bytes(mem, rlp) == SubSeq(mem, rlp.ptr, rlp.ptr + rlp.rlpLen - 1)

AllZero(bs) == \A i \in 1..Len(bs) : bs[i] = 0

\* the verdict of validateERC20 on a record
IsERC20Transfer(mem, tx_obj) ==
    /\ AllZero(Bytes(mem, tx_obj.tx.value))
    /\ tx_obj.tx.to.rlpLen = ETH_ADDRESS_LEN
    /\ tx_obj.tx.data.rlpLen = ERC20_DATA_LENGTH
    /\ SubSeq(mem, tx_obj.tx.data.ptr, tx_obj.tx.data.ptr + 3) = ERC20_TRANSFER_PREFIX
    /\ AllZero(SubSeq(mem, tx_obj.tx.data.ptr + 4, tx_obj.tx.data.ptr + 15))

\* validateERC20(&eth_tx_obj): [ok, tx], the verdict is stored in is_erc20_transfer
validateERC20(mem, tx_obj) ==
    LET ok == IsERC20Transfer(mem, tx_obj)
    IN [tx |-> [tx_obj EXCEPT !.is_erc20_transfer = ok], ok |-> ok]

\* _validateTxEth(): [err, tx]
_validateTxEth(mem, tx_obj, expertMode) ==
    LET r == validateERC20(mem, tx_obj)
    IN [err |-> IF ~r.ok /\ ~expertMode THEN parser_unsupported_tx ELSE parser_ok,
        tx |-> r.tx]

----------------------------------------------------------------------------
\* Display

View(ptr, len) == [ptr |-> ptr, rlpLen |-> len]
FieldView(rlp) == View(rlp.ptr, rlp.rlpLen)
Item(key, val) == [ret |-> parser_ok, key |-> key, val |-> val]
NoView == View(NULL, 0)
OutOfRange == [ret |-> parser_display_page_out_of_range, key |-> "", val |-> NoView]
Unsupported == [ret |-> parser_unsupported_tx, key |-> "", val |-> NoView]

Min(a, b) == IF a < b THEN a ELSE b

\* the bytes the Data item prints
DataView(tx_obj) ==
    View(tx_obj.tx.data.ptr, Min(tx_obj.tx.data.rlpLen, DATA_BYTES_TO_PRINT))

\* printEthHash(ctx, ...): the hash of the whole buffer
printEthHash(mem) == Item("Eth-Hash", View(1, Len(mem)))

\* displayIdx is a uint8_t
U8(n) == n % 256

ERC20ShiftByOne(tx_obj, displayIdx) ==
    LET d1 == IF tx_obj.tx_type = eip1559 /\ displayIdx >= 7
              THEN U8(displayIdx + 1) ELSE displayIdx
    IN IF (tx_obj.tx_type = legacy \/ tx_obj.tx_type = eip2930) /\ d1 >= 4
       THEN U8(d1 + 1) ELSE d1

\* the shift of printERC20Transfer (lines 245-251)
ERC20Shift(tx_obj, displayIdx) ==
    LET d1 == IF tx_obj.tx_type = eip1559 /\ displayIdx >= 7
              THEN U8(displayIdx + 1) ELSE displayIdx
    IN IF (tx_obj.tx_type = legacy \/ tx_obj.tx_type = eip2930) /\ d1 >= 4
       THEN U8(d1 + 2) ELSE d1

\* the switch of printERC20Transfer (lines 254-321)
ERC20Case(mem, tx_obj, d) ==
    CASE d = 0 -> Item("Receiver", View(tx_obj.tx.data.ptr + 4 + 12, ETH_ADDRESS_LEN))
      [] d = 1 -> Item("Contract", View(tx_obj.tx.to.ptr, ETH_ADDRESS_LEN))
      [] d = 2 -> Item("Amount", FieldView(tx_obj.tx.data))
      [] d = 3 -> Item("Nonce", FieldView(tx_obj.tx.nonce))
      [] d = 4 -> Item("Max Priority Fee", FieldView(tx_obj.tx.max_priority_fee_per_gas))
      [] d = 5 -> Item("Max Fee", FieldView(tx_obj.tx.max_fee_per_gas))
      [] d = 6 -> Item("Gas limit", FieldView(tx_obj.tx.gasLimit))
      [] d = 7 -> Item("Gas price", FieldView(tx_obj.tx.gasPrice))
      [] d = 8 -> Item("Value", FieldView(tx_obj.tx.value))
      [] d = 9 -> Item("Data", DataView(tx_obj))
      [] d = 10 -> printEthHash(mem)
      [] OTHER -> OutOfRange

\* printERC20Transfer(ctx, displayIdx, ...): [ret, key, val]
printERC20Transfer(mem, tx_obj, displayIdx) ==
    ERC20Case(mem, tx_obj, ERC20Shift(tx_obj, displayIdx))

\* the shift of printGeneric (lines 337-347)
GenericShift(tx_obj, displayIdx) ==
    LET d1 == IF (displayIdx >= 2 /\ tx_obj.tx.data.rlpLen = 0) \/ tx_obj.tx.to.rlpLen = 0
              THEN U8(displayIdx + 1) ELSE displayIdx
        d2 == IF tx_obj.tx_type = eip1559 /\ d1 >= 6 THEN U8(d1 + 1) ELSE d1
    IN IF (tx_obj.tx_type = legacy \/ tx_obj.tx_type = eip2930) /\ d2 >= 3
       THEN U8(d2 + 2) ELSE d2

\* the switch of printGeneric (lines 349-405)
GenericCase(mem, tx_obj, d) ==
    CASE d = 0 -> Item("To", View(tx_obj.tx.to.ptr, ETH_ADDRESS_LEN))
      [] d = 1 -> Item("Value", FieldView(tx_obj.tx.value))
      [] d = 2 -> Item("Data", DataView(tx_obj))
      [] d = 3 -> Item("Max Priority Fee", FieldView(tx_obj.tx.max_priority_fee_per_gas))
      [] d = 4 -> Item("Max Fee", FieldView(tx_obj.tx.max_fee_per_gas))
      [] d = 5 -> Item("Gas limit", FieldView(tx_obj.tx.gasLimit))
      [] d = 6 -> Item("Gas price", FieldView(tx_obj.tx.gasPrice))
      [] d = 7 -> Item("Nonce", FieldView(tx_obj.tx.nonce))
      [] d = 8 -> printEthHash(mem)
      [] OTHER -> OutOfRange

\* printGeneric(ctx, displayIdx, ...): [ret, key, val]
printGeneric(mem, tx_obj, displayIdx) ==
    GenericCase(mem, tx_obj, GenericShift(tx_obj, displayIdx))

\* _getItemEth(ctx, displayIdx, ...): [ret, key, val]
_getItemEth(mem, tx_obj, expertMode, displayIdx) ==
    IF tx_obj.is_erc20_transfer THEN printERC20Transfer(mem, tx_obj, displayIdx)
    ELSE IF expertMode THEN printGeneric(mem, tx_obj, displayIdx)
    ELSE Unsupported

\* _getNumItemsEth(&numItems): [numItems, err, tx]
_getNumItemsEth(mem, tx_obj) ==
    LET r == validateERC20(mem, tx_obj)
    IN [numItems |->
            IF r.ok
            THEN IF r.tx.tx_type = legacy \/ r.tx.tx_type = eip2930 THEN 9 ELSE 10
            ELSE 5 + (IF r.tx.tx.data.rlpLen # 0 THEN 1 ELSE 0)
                   + (IF r.tx.tx.to.rlpLen # 0 THEN 1 ELSE 0),
        err |-> parser_ok,
        tx |-> r.tx]

----------------------------------------------------------------------------
\* The recovery byte

VResult(err, v) == [err |-> err, v |-> v]

ComputeVNoParity(mem, tx_obj, info) ==
    LET id == be_bytes_to_u64(mem, tx_obj.chainId.ptr, tx_obj.chainId.rlpLen)
    IN IF tx_obj.tx_type = eip2930 \/ tx_obj.tx_type = eip1559
       THEN VResult(parser_ok, 0)
       ELSE IF tx_obj.chainId.rlpLen = 0 THEN VResult(parser_ok, 27)
       ELSE VResult(parser_ok,
                    saturating_add_u32(ToBytes(35, 4), mul2_u32(u64_to_u32(id.num)))[4])

ComputeVNoChain(mem, tx_obj, info) ==
    LET parity == IF (info % 2) = CX_ECCINFO_PARITY_ODD THEN 1 ELSE 0
    IN IF tx_obj.tx_type = eip2930 \/ tx_obj.tx_type = eip1559
       THEN VResult(parser_ok, parity)
       ELSE VResult(parser_ok, 27 + parity)

\* _computeV(ctx, tx_obj, info, &v): [err, v]; v is 0 when it was not written
_computeV(mem, tx_obj, info) ==
    LET type == tx_obj.tx_type
        \* (info & CX_ECCINFO_PARITY_ODD) == 1
        parity == IF (info % 2) = CX_ECCINFO_PARITY_ODD THEN 1 ELSE 0
        id == be_bytes_to_u64(mem, tx_obj.chainId.ptr, tx_obj.chainId.rlpLen)
        cv == saturating_add_u32(ToBytes(35 + parity, 4), mul2_u32(u64_to_u32(id.num)))
    IN IF type = eip2930 \/ type = eip1559 THEN VResult(parser_ok, parity)
       ELSE IF tx_obj.chainId.rlpLen = 0 THEN VResult(parser_ok, 27 + parity)
       ELSE IF id.err # parser_ok THEN VResult(id.err, 0)
       ELSE VResult(parser_ok, cv[4])

----------------------------------------------------------------------------
\* The transactions handed to the parser: RLP encodings of well-formed
\* transactions of each shape, and malformed variants of them

RECURSIVE Concat(_)
Concat(ss) == IF ss = <<>> THEN <<>> ELSE Head(ss) \o Concat(Tail(ss))

\* the RLP list with the given payload
EncList(payload) ==
    IF Len(payload) <= 55 THEN <<192 + Len(payload)>> \o payload
    ELSE <<248, Len(payload)>> \o payload

Addr20 == [i \in 1..20 |-> 32 + i]
\* transfer(address,uint256) of 0x0de0b6b3a7640000 to Addr20
Erc20Data ==
    ERC20_TRANSFER_PREFIX \o [i \in 1..12 |-> 0] \o [i \in 1..20 |-> 64 + i]
        \o [i \in 1..24 |-> 0] \o <<13, 224, 182, 179, 167, 100, 0, 0>>

E_empty == <<128>>
E_addr == <<148>> \o Addr20
E_erc20 == <<184, 68>> \o Erc20Data
E_nonce == <<5>>
E_gasPrice == <<1>>
E_gasLimit == <<130, 82, 8>>
E_acl == <<192>>

\* allow-listed chain IDs, canonical
ChainOk == { <<130, 13, 10>>, <<130, 39, 6>>, <<130, 8, 193>> }
\* other encodings of the chain ID item
ChainOdd ==
    { <<1>>, <<130, 0, 1>>, <<129, 144>>, <<128>>, <<194, 13, 10>>, <<131, 0, 13, 10>>,
      <<137, 0, 0, 0, 0, 0, 0, 0, 13, 10>>, <<136, 0, 0, 0, 1, 0, 0, 13, 10>> }

TxKinds == {"pre155", "eip155", "eip2930", "eip1559"}

\* the bytes of a transaction of kind k with the given items; tail follows the
\* last item inside the outer list
EncTx(k, chain, to, value, data, r, s, tail) ==
    CASE k = "pre155" ->
           EncList(Concat(<<E_nonce, E_gasPrice, E_gasLimit, to, value, data, tail>>))
      [] k = "eip155" ->
           EncList(Concat(<<E_nonce, E_gasPrice, E_gasLimit, to, value, data,
                            chain, r, s, tail>>))
      [] k = "eip2930" ->
           <<1>> \o EncList(Concat(<<chain, E_nonce, E_gasPrice, E_gasLimit, to, value,
                                     data, E_acl, tail>>))
      [] k = "eip1559" ->
           <<2>> \o EncList(Concat(<<chain, E_nonce, E_gasPrice, E_gasPrice, E_gasLimit,
                                     to, value, data, E_acl, tail>>))

Plain(k, chain, to, value, data) == EncTx(k, chain, to, value, data, E_empty, E_empty, <<>>)

\* every shape the display distinguishes
ShapeInputs ==
    { Plain(k, <<130, 13, 10>>, to, E_empty, data) :
        k \in TxKinds, to \in {E_empty, E_addr}, data \in {E_empty, <<17>>, E_erc20} }
    \cup { Plain(k, <<130, 39, 6>>, E_addr, <<1>>, E_erc20) : k \in TxKinds }

\* every encoding of the chain ID
ChainInputs ==
    { Plain(k, c, E_addr, E_empty, <<17>>) :
        k \in TxKinds \ {"pre155"}, c \in ChainOk \cup ChainOdd }

\* the r and s items of a legacy transaction with a chain ID
RSItems == { <<128>>, <<0>>, <<1>> }
RSInputs ==
    { EncTx("eip155", <<130, 13, 10>>, E_addr, E_empty, E_empty, r, s, tail) :
        r \in RSItems, s \in RSItems, tail \in {<<>>, <<0>>} }
    \cup { EncTx("eip155", <<130, 13, 10>>, E_addr, E_empty, E_empty, rs, rs, <<>>) :
             rs \in { <<129, 0>>, <<192>>, <<130, 0, 0>> } }

\* lengths of the to item other than 0 and 20
ToInputs ==
    { Plain(k, <<130, 8, 193>>, to, E_empty, E_empty) :
        k \in TxKinds, to \in { <<7>>, <<130, 1, 2>>, <<149>> \o Addr20 \o <<9>> } }

\* broken framing
FrameInputs ==
    LET good == { Plain(k, <<130, 13, 10>>, E_empty, E_empty, E_empty) : k \in TxKinds }
    IN { g \o <<0>> : g \in good }
       \cup { SubSeq(g, 1, Len(g) - 1) : g \in good }
       \cup { EncTx(k, <<130, 13, 10>>, E_empty, E_empty, E_empty, E_empty, E_empty, <<128>>) :
                k \in {"eip2930", "eip1559"} }
       \cup { <<>>, <<1>>, <<2>>, <<3>>, <<127>>, <<192>>, <<1, 130, 1, 2>>, <<2, 5>>,
              <<248, 0>>, <<1, 248>>,
              \* a legacy list that ends after the chain ID, and one that ends after r
              EncList(Concat(<<E_nonce, E_gasPrice, E_gasLimit, E_empty, E_empty, E_empty,
                               <<130, 13, 10>> >>)),
              EncList(Concat(<<E_nonce, E_gasPrice, E_gasLimit, E_empty, E_empty, E_empty,
                               <<130, 13, 10>>, E_empty>>)) }

Inputs == ShapeInputs \cup ChainInputs \cup RSInputs \cup ToInputs \cup FrameInputs

----------------------------------------------------------------------------
\* The operations

\* no parse has returned yet
NoReturn == [err |-> "none", consumed |-> 0]

\* the parser before its first call
ParserInit ==
    /\ buffer = <<>>
    /\ eth_tx_obj = ZeroTx
    /\ ret = NoReturn
    /\ expert \in BOOLEAN
    /\ numItems = NoResult
    /\ out = NoResult
    /\ before = NoResult

\* no call of crypto_sign is in progress
SignIdle ==
    /\ pc = "idle"
    /\ signature = NULL
    /\ sig_mem = <<>>
    /\ signatureMaxlen = 0
    /\ message = NULL
    /\ messageLen = 0
    /\ privateKeyData = <<>>
    /\ cx_privateKey = <<>>
    /\ error = "none"
    /\ last_cx = "none"
    /\ sign_ret = "none"

Init == ParserInit /\ SignIdle

\* the record holds a successfully parsed transaction
Parsed == ret.err = parser_ok

\* no transaction is under review: the device serves the next request only
\* after the user has approved or rejected the one on screen
Idle == numItems = NoResult /\ out = NoResult

\* what a record holds that a later parse of a shorter transaction does not write
Leftover(tx_obj) ==
    [op |-> "parse",
     chain |-> tx_obj.chainId.rlpLen # 0,
     fees |-> tx_obj.tx.max_fee_per_gas.rlpLen # 0,
     erc20 |-> tx_obj.is_erc20_transfer]

\* a new transaction arrives and is parsed
Decode(B) ==
    \E r \in {_readEth(B, eth_tx_obj)} :
       /\ Idle
       /\ buffer' = B
       /\ eth_tx_obj' = r.tx
       /\ ret' = [err |-> r.err, consumed |-> r.consumed]
       /\ before' = Leftover(eth_tx_obj)
       /\ UNCHANGED <<expert, numItems, out>>
       /\ UNCHANGED signVars

Validate ==
    /\ Parsed
    /\ \E r \in {_validateTxEth(buffer, eth_tx_obj, expert)} :
          /\ eth_tx_obj' = r.tx
          /\ out' = [ret |-> r.err, op |-> "validate"]
    /\ before' = NoResult
    /\ UNCHANGED <<buffer, ret, expert, numItems>>
    /\ UNCHANGED signVars

GetNumItems ==
    /\ Parsed
    /\ \E r \in {_getNumItemsEth(buffer, eth_tx_obj)} :
          /\ eth_tx_obj' = r.tx
          /\ numItems' = [op |-> "numItems", n |-> r.numItems]
          \* an item fetched from the record as it was is no longer of this record
          /\ out' = IF r.tx = eth_tx_obj THEN out ELSE NoResult
    /\ before' = NoResult
    /\ UNCHANGED <<buffer, ret, expert>>
    /\ UNCHANGED signVars

GetItem(displayIdx) ==
    /\ Parsed
    /\ \E r \in {_getItemEth(buffer, eth_tx_obj, expert, displayIdx)} :
          out' = [ret |-> r.ret, op |-> "getItem", key |-> r.key, val |-> r.val,
                  idx |-> displayIdx]
    /\ before' = NoResult
    /\ UNCHANGED <<buffer, eth_tx_obj, ret, expert, numItems>>
    /\ UNCHANGED signVars

ComputeV(info) ==
    /\ Parsed
    /\ \E r \in {_computeV(buffer, eth_tx_obj, info)} :
          out' = [ret |-> r.err, op |-> "computeV", v |-> r.v, info |-> info]
    /\ before' = NoResult
    /\ UNCHANGED <<buffer, eth_tx_obj, ret, expert, numItems>>
    /\ UNCHANGED signVars

\* the user switches expert mode in the settings, outside a review
ToggleExpert ==
    /\ Idle
    /\ expert' = ~expert
    /\ UNCHANGED <<buffer, eth_tx_obj, ret, numItems, out, before>>
    /\ UNCHANGED signVars

\* the user approves or rejects the transaction on screen; the record stays
EndReview ==
    /\ ~Idle
    /\ numItems' = NoResult
    /\ out' = NoResult
    /\ UNCHANGED <<buffer, eth_tx_obj, ret, expert, before>>
    /\ UNCHANGED signVars

Next ==
    \/ \E B \in Inputs : Decode(B)
    \/ Validate
    \/ GetNumItems
    \/ \E i \in 0..MaxDisplayIdx : GetItem(i)
    \/ \E info \in 0..MaxInfo : ComputeV(info)
    \/ ToggleExpert
    \/ EndReview

Spec == Init /\ [][Next]_vars

----------------------------------------------------------------------------
\* crypto_sign (crypto.c:29-58)

zxerr_ok == "zxerr_ok"
zxerr_unknown == "zxerr_unknown"
zxerr_invalid_crypto_settings == "zxerr_invalid_crypto_settings"
CX_OK == "CX_OK"
CX_FAILED == "CX_FAILED"

\* what a key or signing call may return
CxResults == {CX_OK, CX_FAILED}

\* the values of a byte the exploration tells apart: zero and not zero
SomeBytes == {0, 1}

\* every content of n bytes
ByteVecs(n) == [1..n -> SomeBytes]

\* MEMZERO(p, sizeof) on a byte buffer
MemzeroBytes(b) == [i \in 1..Len(b) |-> 0]

AllZeroBytes(b) == \A i \in 1..Len(b) : b[i] = 0

\* CATCH_CXERROR(call): where control goes after a call that returned cx
CATCH_CXERROR(cx, next) == IF cx # CX_OK THEN "catch_cx_error" ELSE next

\* the signature buffer is left as written however the call ended
SignatureKept(sig, err) == sig

\* crypto.c:53-55: the signature buffer when crypto_sign returns err
SignatureAtReturn(sig, err) == IF err # zxerr_ok THEN MemzeroBytes(sig) ELSE sig

\* a caller hands crypto_sign its arguments; the buffer behind signature
\* holds signatureMaxlen bytes of whatever the caller left there
SignInit ==
    /\ ParserInit
    /\ pc = "call"
    /\ signature \in {NULL, 1}
    /\ signatureMaxlen \in (SigLen - 1)..(SigLen + 1)
    /\ sig_mem \in IF signature = NULL THEN {<<>>} ELSE ByteVecs(signatureMaxlen)
    /\ message \in {NULL, 1}
    /\ messageLen \in 0..1
    /\ privateKeyData = <<>>
    /\ cx_privateKey = <<>>
    /\ error = "none"
    /\ last_cx = "none"
    /\ sign_ret = "none"

\* crypto.c:30-32: the arguments are refused, nothing was derived
RejectArguments ==
    /\ pc = "call"
    /\ signature = NULL \/ message = NULL \/ signatureMaxlen < SigLen \/ messageLen = 0
    /\ sign_ret' = zxerr_invalid_crypto_settings
    /\ pc' = "returned"
    /\ UNCHANGED <<signature, sig_mem, signatureMaxlen, message, messageLen,
                   privateKeyData, cx_privateKey, error, last_cx>>
    /\ UNCHANGED parserVars

\* crypto.c:34-37: the locals; cx_privateKey is not initialised and holds
\* whatever the stack held
EnterSign ==
    /\ pc = "call"
    /\ ~(signature = NULL \/ message = NULL \/ signatureMaxlen < SigLen \/ messageLen = 0)
    /\ cx_privateKey' \in ByteVecs(ScalarLen)
    /\ privateKeyData' = [i \in 1..SkLen |-> 0]
    /\ error' = zxerr_unknown
    /\ pc' = "derive"
    /\ UNCHANGED <<signature, sig_mem, signatureMaxlen, message, messageLen,
                   last_cx, sign_ret>>
    /\ UNCHANGED parserVars

\* crypto.c:39-40: os_derive_bip32_with_seed_no_throw writes privateKeyData
\* and succeeds or fails
DeriveKey ==
    /\ pc = "derive"
    /\ \E cx \in CxResults :
          /\ privateKeyData' \in ByteVecs(SkLen)
          /\ pc' = CATCH_CXERROR(cx, "init_private_key")
    /\ last_cx' = "derive"
    /\ UNCHANGED <<signature, sig_mem, signatureMaxlen, message, messageLen,
                   cx_privateKey, error, sign_ret>>
    /\ UNCHANGED parserVars

\* crypto.c:42: cx_ecfp_init_private_key_no_throw copies SCALAR_LEN_ED25519
\* bytes of privateKeyData into cx_privateKey, or fails part-way
InitPrivateKey ==
    /\ pc = "init_private_key"
    /\ \E cx \in CxResults :
          /\ cx_privateKey' \in IF cx = CX_OK
                                THEN {SubSeq(privateKeyData, 1, ScalarLen)}
                                ELSE ByteVecs(ScalarLen)
          /\ pc' = CATCH_CXERROR(cx, "sign")
    /\ last_cx' = "init_private_key"
    /\ UNCHANGED <<signature, sig_mem, signatureMaxlen, message, messageLen,
                   privateKeyData, error, sign_ret>>
    /\ UNCHANGED parserVars

\* crypto.c:45-47: cx_eddsa_sign_no_throw writes the first
\* ED25519_SIGNATURE_SIZE bytes of the signature buffer, all of them on
\* success and any of them on failure; error = zxerr_ok on success
SignMessage ==
    /\ pc = "sign"
    /\ \E cx \in CxResults : \E written \in ByteVecs(SigLen) :
          /\ sig_mem' = written \o SubSeq(sig_mem, SigLen + 1, Len(sig_mem))
          /\ error' = IF cx = CX_OK THEN zxerr_ok ELSE error
          /\ pc' = CATCH_CXERROR(cx, "catch_cx_error")
    /\ last_cx' = "sign"
    /\ UNCHANGED <<signature, signatureMaxlen, message, messageLen,
                   privateKeyData, cx_privateKey, sign_ret>>
    /\ UNCHANGED parserVars

\* crypto.c:49-57: the common exit
CatchCxError ==
    /\ pc = "catch_cx_error"
    /\ cx_privateKey' = MemzeroBytes(cx_privateKey)
    /\ privateKeyData' = MemzeroBytes(privateKeyData)
    /\ sig_mem' = SignatureAtReturn(sig_mem, error)
    /\ sign_ret' = error
    /\ pc' = "returned"
    /\ UNCHANGED <<signature, signatureMaxlen, message, messageLen, error, last_cx>>
    /\ UNCHANGED parserVars

SignNext ==
    \/ RejectArguments
    \/ EnterSign
    \/ DeriveKey
    \/ InitPrivateKey
    \/ SignMessage
    \/ CatchCxError

SignSpec == SignInit /\ [][SignNext]_vars

----------------------------------------------------------------------------
\* Properties

\* the bytes of a view of the current transaction
Payload(rlp) == Bytes(buffer, rlp)

\* a big-endian byte vector without its leading zero bytes
RECURSIVE Unsigned(_)
Unsigned(bs) == IF bs # <<>> /\ Head(bs) = 0 THEN Unsigned(Tail(bs)) ELSE bs

\* 3338, 9990 and 2241 as big-endian integers
AllowedChainIds == { <<13, 10>>, <<39, 6>>, <<8, 193>> }

Typed == eth_tx_obj.tx_type \in {eip2930, eip1559}
Legacy == eth_tx_obj.tx_type = legacy
\* the data item is not the last item of the transaction
MoreThanBaseFields ==
    eth_tx_obj.tx.data.ptr + eth_tx_obj.tx.data.rlpLen - 1 < Len(buffer)

\* C1: when _readEth succeeds every byte of the input was consumed, the legacy
\* path with a chain ID included: nothing follows the s item in the outer list
C1_AllBytesConsumed == Parsed => ret.consumed = Len(buffer)

\* the item a successful or failed parse stored as chain ID decodes to an integer
ChainIdDecodes ==
    /\ eth_tx_obj.chainId.ptr # NULL
    /\ \/ eth_tx_obj.chainId.rlpLen \in 2..8
       \/ eth_tx_obj.chainId.kind = RLP_KIND_BYTE

C3_ToLength == Parsed => eth_tx_obj.tx.to.rlpLen \in {0, ETH_ADDRESS_LEN}

\* the record is one _getItemEth displays
Displayed == eth_tx_obj.is_erc20_transfer \/ expert

\* C4: the count of _getNumItemsEth is the number of indices 0, 1, 2, ... that
\* _getItemEth serves before the first parser_display_page_out_of_range: every
\* index below the count is served and the count itself is out of range
C4_NumItemsCountsItems ==
    (Parsed /\ Displayed /\ numItems.op = "numItems" /\ out.op = "getItem")
      => /\ out.idx < numItems.n => out.ret = parser_ok
         /\ out.idx = numItems.n => out.ret = parser_display_page_out_of_range

GenericRows ==
    << "To", "Value", "Data", "Max Priority Fee", "Max Fee", "Gas limit", "Gas price",
       "Nonce", "Eth-Hash" >>

\* the rows of the generic table that apply to the record
GenericTable ==
    LET Keep(row) ==
          /\ row = "To" => eth_tx_obj.tx.to.rlpLen # 0
          /\ row = "Data" => eth_tx_obj.tx.data.rlpLen # 0
          /\ row \in {"Max Priority Fee", "Max Fee"} => eth_tx_obj.tx_type = eip1559
          /\ row = "Gas price" => eth_tx_obj.tx_type # eip1559
    IN SelectSeq(GenericRows, Keep)

\* C5: in expert mode, item i of a transaction that is no ERC-20 transfer is
\* row i of the generic table without the rows that do not apply, for every i
\* below the count of _getNumItemsEth
C5_GenericRows ==
    (Parsed /\ expert /\ ~eth_tx_obj.is_erc20_transfer
       /\ numItems.op = "numItems" /\ out.op = "getItem" /\ out.idx < numItems.n)
      => /\ out.ret = parser_ok
         /\ out.idx + 1 <= Len(GenericTable)
         /\ out.key = GenericTable[out.idx + 1]

ERC20Rows ==
    IF eth_tx_obj.tx_type = eip1559
    THEN << "Receiver", "Contract", "Amount", "Nonce", "Max Priority Fee", "Max Fee",
            "Gas limit", "Value", "Data", "Eth-Hash" >>
    ELSE << "Receiver", "Contract", "Amount", "Nonce", "Gas limit", "Gas price",
            "Value", "Data", "Eth-Hash" >>

\* C6: for a record flagged as ERC-20 transfer, item i is row i of the explicit
\* table (9 rows for legacy and EIP-2930, 10 for EIP-1559), the index after the
\* last row is out of range, the count is the number of rows, item 0 reads
\* bytes 16..36 of data and item 1 reads to
C6_ERC20Rows ==
    /\ (Parsed /\ eth_tx_obj.is_erc20_transfer /\ out.op = "getItem")
         => /\ out.idx < Len(ERC20Rows)
                 => out.ret = parser_ok /\ out.key = ERC20Rows[out.idx + 1]
            /\ out.idx = Len(ERC20Rows) => out.ret = parser_display_page_out_of_range
            /\ out.idx = 0 => out.val = View(eth_tx_obj.tx.data.ptr + 16, 20)
            /\ out.idx = 1 => out.val = View(eth_tx_obj.tx.to.ptr, 20)
    /\ (Parsed /\ eth_tx_obj.is_erc20_transfer /\ numItems.op = "numItems")
         => numItems.n = Len(ERC20Rows)

C6_Witness ==
    /\ Parsed /\ eth_tx_obj.is_erc20_transfer /\ eth_tx_obj.tx_type = eip1559
    /\ numItems.op = "numItems" /\ numItems.n = 10
    /\ out.op = "getItem" /\ out.idx = 9 /\ out.key = "Eth-Hash"

\* the r item of the current legacy transaction, read after its chain ID
LegacyR ==
    LET list == rlp_read(buffer, Ctx(1, Len(buffer)))
        c == eth_tx_obj.chainId
    IN rlp_read(buffer, [Ctx(list.rlp.ptr, list.rlp.rlpLen)
                           EXCEPT !.offset = c.ptr + c.rlpLen - list.rlp.ptr])

\* the s item, read after r
LegacyS == rlp_read(buffer, LegacyR.ctx)

\* an item that is zero-length or the single byte 0x00
EmptyOrZero(rlp) == rlp.rlpLen = 0 \/ (rlp.rlpLen = 1 /\ buffer[rlp.ptr] = 0)

\* a legacy transaction whose allow-listed chain ID is followed by r and s
LegacyWithRS ==
    /\ ret.err # "none" /\ Legacy
    /\ eth_tx_obj.chainId.ptr # NULL
    /\ Payload(eth_tx_obj.chainId) \in AllowedChainIds
    /\ LegacyR.err = parser_ok /\ LegacyS.err = parser_ok

\* C7: a legacy transaction with an allow-listed chain ID followed by r and s
\* parses exactly when each of r and s is zero-length or the byte 0x00, in any
\* combination of the two forms; otherwise it fails with parser_invalid_rs_values
C7_RSEachEmptyOrZero ==
    LegacyWithRS
      => IF EmptyOrZero(LegacyR.rlp) /\ EmptyOrZero(LegacyS.rlp)
         THEN ret.err = parser_ok
         ELSE ret.err = parser_invalid_rs_values

\* the chain ID of a successfully parsed record, as an integer
ChainIdValue == BytesToInt(Unsigned(Payload(eth_tx_obj.chainId)))

Parity(info) == info % 2

\* C8: _computeV returns the parity for EIP-2930 and EIP-1559, 27 + parity for
\* a legacy record without chain ID, and otherwise the low 8 bits of the 32-bit
\* saturating sum of 35 + parity and 2 * chain_id (below 2^31 for every chain
\* ID a parse accepts, so the saturating sum is the sum)
C8_ComputeV ==
    (Parsed /\ out.op = "computeV")
      => /\ out.ret = parser_ok
         /\ out.v = IF Typed THEN Parity(out.info)
                    ELSE IF eth_tx_obj.chainId.rlpLen = 0 THEN 27 + Parity(out.info)
                    ELSE (35 + Parity(out.info) + 2 * ChainIdValue) % 256
         /\ (Legacy /\ eth_tx_obj.chainId.rlpLen # 0) => ChainIdValue < 65536

C8_Witness ==
    /\ Parsed /\ Legacy /\ Payload(eth_tx_obj.chainId) = <<13, 10>>
    /\ out.op = "computeV" /\ out.info = 3 /\ out.v = 56

\* C9: for a legacy record with chain ID c and parity p the byte v(c, p) is at
\* least 35 and differs from v(c, 1 - p) by exactly one
C9_VParity ==
    (Parsed /\ Legacy /\ eth_tx_obj.chainId.rlpLen # 0 /\ out.op = "computeV")
      => /\ out.ret = parser_ok
         /\ out.v >= 35
         /\ out.v - _computeV(buffer, eth_tx_obj, 1 - Parity(out.info)).v \in {-1, 1}

C9_Witness ==
    /\ Parsed /\ Legacy /\ Payload(eth_tx_obj.chainId) = <<8, 193>>
    /\ out.op = "computeV" /\ out.info = 0 /\ out.v = 165

ZeroLength(rlp) == rlp.rlpLen = 0

\* C10: when a parse returns, with success or an error, the record is what the
\* same input gives on a zeroed record: is_erc20_transfer is false and every
\* field the call did not write is zero-length, whatever the record held before
C10_RecordOfThisInput ==
    before.op = "parse"
      => /\ eth_tx_obj = ReadEthFrom(buffer, ZeroTx).tx
         /\ ~eth_tx_obj.is_erc20_transfer
         /\ eth_tx_obj.tx_type # eip1559
              => /\ ZeroLength(eth_tx_obj.tx.max_priority_fee_per_gas)
                 /\ ZeroLength(eth_tx_obj.tx.max_fee_per_gas)
         /\ ~Typed => ZeroLength(eth_tx_obj.tx.access_list)
         /\ (Parsed /\ Legacy /\ ~MoreThanBaseFields) => ZeroLength(eth_tx_obj.chainId)
         /\ ~Parsed => \A f \in DOMAIN eth_tx_obj.tx :
                          \/ ZeroLength(eth_tx_obj.tx[f])
                          \/ eth_tx_obj.tx[f].ptr + eth_tx_obj.tx[f].rlpLen - 1 <= ret.consumed

\* a legacy transaction without chain ID parsed over the record of a validated
\* EIP-1559 ERC-20 transfer
C10_Witness ==
    /\ before.op = "parse" /\ before.fees /\ before.chain /\ before.erc20
    /\ Parsed /\ Legacy /\ ZeroLength(eth_tx_obj.chainId)
    /\ ZeroLength(eth_tx_obj.tx.max_fee_per_gas)

\* crypto_sign returned on a path that had reached key derivation
ReturnedAfterDerivation == pc = "returned" /\ last_cx # "none"

\* C11: when crypto_sign returns after key derivation was attempted - after a
\* failed derivation, a failed key initialisation, a failed signing or a
\* success - the raw private key bytes and the key structure are all zero, and
\* if it returns an error every byte of the signature buffer is zero
C11_SecretsAndSignatureZeroed ==
    ReturnedAfterDerivation
      => /\ AllZeroBytes(privateKeyData) /\ Len(privateKeyData) = SkLen
         /\ AllZeroBytes(cx_privateKey) /\ Len(cx_privateKey) = ScalarLen
         /\ sign_ret # zxerr_ok
              => AllZeroBytes(sig_mem) /\ Len(sig_mem) = signatureMaxlen

\* crypto_sign returned an error after the signing call failed, on a buffer
\* larger than a signature
C11_Witness ==
    /\ ReturnedAfterDerivation
    /\ last_cx = "sign"
    /\ sign_ret = zxerr_unknown
    /\ signatureMaxlen > SigLen

====
